---- MODULE Spec2Model ----
(***************************************************************************)
(* A model of src/script.js (Ultimate Gamepad Tester): the polling loop,   *)
(* the connection handlers, the rolling rate estimator, the trigger        *)
(* resolution sets, the oscilloscope buffers and the circularity buffers.  *)
(*                                                                         *)
(* Numbers.  Axis and trigger values are held in thousandths (0.1 is 100,  *)
(* 1.0 is 1000).  Host timestamps are whole milliseconds.  A rate is an    *)
(* exact fraction <<n, d>> in lowest terms; <<1, 0>> is JavaScript's       *)
(* Infinity (1000 / 0).  The windows of the code hold 60, 200 and 1000     *)
(* entries; the model holds the same windows at the reduced capacities     *)
(* RateWindow, ScopeMaxPoints and CircleMaxPoints so that eviction is      *)
(* reached by the model checker.                                           *)
(***************************************************************************)
EXTENDS Integers, Sequences, FiniteSets, TLC

VARIABLES
    supported,            \* navigator.getGamepads exists
    started,              \* "boot" | "running" | "unsupported"
    animationFrameId,     \* GamepadTester.animationFrameId
    scheduled,            \* the host holds a pending pollGamepads callback
    hw,                   \* indices navigator.getGamepads() reports non-null
    pending,              \* connection notifications queued by the host
    gamepads,             \* GamepadTester.gamepads: index -> stored snapshot
    activeGamepadIndex,   \* GamepadTester.activeGamepadIndex
    tabs,                 \* indices of the visible controller tabs
    lastActive,           \* the controller that was active last (Null: none yet)
    clock,                \* host timestamp of the most recent tick
    ticks,                \* number of pollGamepads callbacks run
    lastTimestamp,        \* GamepadTester.performance.lastTimestamp
    frameDeltas,          \* GamepadTester.performance.frameDeltas
    pollingRates,         \* GamepadTester.performance.pollingRates
    avgPollingRate,       \* the last value of the local avgPollingRate
    pollingRateText,      \* #polling-rate: Math.round(avgPollingRate)
    frameDeltaText,       \* #frame-delta: avgFrameDelta.toFixed(2), in 1/100 ms
    triggerTracking,      \* GamepadTester.triggerTracking
    oscilloscopeData,     \* GamepadTester.oscilloscopeData
    circularityData,      \* GamepadTester.circularityData
    selectedScope,        \* GamepadTester.selectedScope
    selectedCircle,       \* GamepadTester.selectedCircle
    circularityErrorText, \* #circularity-error, in 1/100 percent
    ev,                   \* the operation that produced this state ("tick": a
                          \* tick that processed the active controller,
                          \* "idle": a tick that had none)
    reached,              \* some tick has reached updatePerformanceMetrics
    fed,                  \* number of frame deltas pushed so far
    calls,                \* the functions the step that produced this state
                          \* called from pollGamepads, in the order of the calls
    stickTransform,       \* style.transform of #stick-left and #stick-right,
                          \* in thousandths of a pixel
    stopSignalled         \* the page has been asked to stop the loop

vars == <<supported, started, animationFrameId, scheduled, hw, pending,
          gamepads, activeGamepadIndex, tabs, lastActive, clock, ticks,
          lastTimestamp,
          frameDeltas, pollingRates, avgPollingRate, pollingRateText,
          frameDeltaText, triggerTracking, oscilloscopeData, circularityData,
          selectedScope, selectedCircle, circularityErrorText, ev, reached,
          fed, calls, stickTransform, stopSignalled>>

connVars == <<hw, pending, gamepads, activeGamepadIndex, tabs, lastActive>>
perfVars == <<lastTimestamp, frameDeltas, pollingRates, avgPollingRate,
              pollingRateText, frameDeltaText, reached, fed>>
loopVars == <<supported, started, animationFrameId, scheduled, clock, ticks>>

----------------------------------------------------------------------------
(* Bounds of the model and constants of the program.                       *)

\* Capacity of frameDeltas and of pollingRates (60 in the code, lines 349, 363).
RateWindow == 3
\* oscilloscopeData.maxPoints (200 in the code, line 38).
ScopeMaxPoints == 3
\* circularityData.maxPoints (1000 in the code, line 46).
CircleMaxPoints == 11
\* Longest queue of connection notifications the host is let to build up.
MaxPending == 2

\* data.length > 10: the smallest buffer whose error is computed (line 764).
ErrorMinSamples == 10
\* |x| > 0.1 || |y| > 0.1, in thousandths (line 684).
NoiseThreshold == 100
\* distance > 0.5, in thousandths (line 770).
EdgeThreshold == 500
\* activeGamepadIndex: null (line 15).
Null == -1
\* gamepad.axes[i] for an i the snapshot does not have (lines 547, 548).
Undefined == -9999
\* const DEADZONE = 0.05, in thousandths (line 402).
Deadzone == 50
\* const stickRange = 15, in pixels (line 414).
StickRange == 15
\* The text of a readout the code has not written yet.
Blank == <<0, 0>>
\* 1000 / 0 and everything computed from it.
Infinity == <<1, 0>>

Sticks == {"left", "right"}

----------------------------------------------------------------------------
(* Arithmetic.                                                             *)

Abs(n) == IF n < 0 THEN 0 - n ELSE n

RECURSIVE Gcd(_, _)
Gcd(a, b) == IF b = 0 THEN a ELSE Gcd(b, a % b)

\* The number n / d, n >= 0 and d >= 0; JavaScript gives Infinity for d = 0
\* (also for 1000 / (0 / len), the only division by 0 the code performs).
Frac(n, d) ==
    IF d = 0 THEN Infinity
    ELSE LET g == Gcd(n, d) IN <<n \div g, d \div g>>

FracAdd(p, q) ==
    IF p[2] = 0 \/ q[2] = 0 THEN Infinity
    ELSE Frac(p[1] * q[2] + q[1] * p[2], p[2] * q[2])

FracDiv(p, k) == IF p[2] = 0 THEN Infinity ELSE Frac(p[1], p[2] * k)

\* Math.round of a non-negative number: the nearest integer, halves up.
MathRound(p) ==
    IF p[2] = 0 THEN Infinity
    ELSE <<(2 * p[1] + p[2]) \div (2 * p[2]), 1>>

\* array.reduce((a, b) => a + b, 0) over integers.
RECURSIVE SumSeq(_)
SumSeq(s) == IF s = <<>> THEN 0 ELSE Head(s) + SumSeq(Tail(s))

\* array.reduce((a, b) => a + b, 0) over rates.
RECURSIVE SumRates(_)
SumRates(s) == IF s = <<>> THEN <<0, 1>> ELSE FracAdd(Head(s), SumRates(Tail(s)))

\* A window that drops the newest entry when full: pop() in place of shift().
PushPop(s, v, cap) ==
    LET t == Append(s, v) IN IF Len(t) > cap THEN SubSeq(t, 1, cap) ELSE t

\* array.push(v) followed by "if (array.length > cap) array.shift()".
PushShift(s, v, cap) ==
    LET t == Append(s, v) IN IF Len(t) > cap THEN Tail(t) ELSE t

----------------------------------------------------------------------------
(* Snapshots: what navigator.getGamepads() reports for one controller.     *)

Snapshot(axes, lt, rt) == [axes |-> axes, buttons |-> <<0, 0, 0, 0, 0, 0, lt, rt>>]

\* gamepad.axes[i]
AxisAt(gp, i) == IF i < Len(gp.axes) THEN gp.axes[i + 1] ELSE Undefined

\* gamepad.buttons[i] ? gamepad.buttons[i].value : 0
ButtonValue(gp, i) == IF i < Len(gp.buttons) THEN gp.buttons[i + 1] ELSE 0

\* Math.abs(v) > t; Math.abs(undefined) is NaN and NaN > t is false.
AbsExceeds(v, t) == v # Undefined /\ Abs(v) > t

----------------------------------------------------------------------------
(* updatePerformanceMetrics (lines 340-380).                               *)

\* avgFrameDelta: frameDeltas.reduce(...) / frameDeltas.length
AvgFrameDelta(fd) == Frac(SumSeq(fd), Len(fd))

\* pollingRate: 1000 / avgFrameDelta
PollingRate(avg) == Frac(1000 * avg[2], avg[1])

\* An estimator that reports the newest rate sample without averaging.
NewestPollingRate(pr) == pr[Len(pr)]

\* avgPollingRate: pollingRates.reduce(...) / pollingRates.length
AvgPollingRate(pr) == FracDiv(SumRates(pr), Len(pr))

\* avgFrameDelta.toFixed(2), as a whole number of hundredths
FrameDeltaToFixed2(avg) == MathRound(<<100 * avg[1], avg[2]>>)

\* The new values of the performance state and of its two readouts.
UpdatePerformanceMetrics(currentTime) ==
    IF lastTimestamp > 0
    THEN LET frameDelta == currentTime - lastTimestamp
             fd == PushShift(frameDeltas, frameDelta, RateWindow)
             avgFrameDelta == AvgFrameDelta(fd)
             pr == PushShift(pollingRates, PollingRate(avgFrameDelta), RateWindow)
             avg == AvgPollingRate(pr)
         IN  [lastTimestamp |-> currentTime, frameDeltas |-> fd,
              pollingRates |-> pr, avgPollingRate |-> avg,
              pollingRateText |-> MathRound(avg),
              frameDeltaText |-> FrameDeltaToFixed2(avgFrameDelta),
              fed |-> fed + 1]
    ELSE [lastTimestamp |-> currentTime, frameDeltas |-> frameDeltas,
          pollingRates |-> pollingRates, avgPollingRate |-> avgPollingRate,
          pollingRateText |-> pollingRateText,
          frameDeltaText |-> frameDeltaText, fed |-> fed]

----------------------------------------------------------------------------
(* updateVisualController (lines 386-432): the stick positions.            *)

\* A deadzone that starts at the threshold itself: >= in place of >.
ApplyDeadzoneInclusive(value) ==
    IF value # Undefined /\ Abs(value) >= Deadzone THEN value ELSE 0

\* Math.abs(value) > DEADZONE ? value : 0
ApplyDeadzone(value) == IF AbsExceeds(value, Deadzone) THEN value ELSE 0

\* translate(${x * stickRange}px, ${y * stickRange}px) of both sticks
UpdateVisualController(gp) ==
    [left  |-> <<ApplyDeadzone(AxisAt(gp, 0)) * StickRange,
                 ApplyDeadzone(AxisAt(gp, 1)) * StickRange>>,
     right |-> <<ApplyDeadzone(AxisAt(gp, 2)) * StickRange,
                 ApplyDeadzone(AxisAt(gp, 3)) * StickRange>>]

----------------------------------------------------------------------------
(* updateTriggerPressure (lines 488-515).                                  *)

\* if (trigger > 0) set.add(trigger)
\* A tracker that inserts the value of a released trigger too: >= in place of >.
TrackTriggerOrZero(set, value) == IF value >= 0 THEN set \cup {value} ELSE set

TrackTrigger(set, value) == IF value > 0 THEN set \cup {value} ELSE set

UpdateTriggerPressure(gp) ==
    [left  |-> TrackTrigger(triggerTracking.left, ButtonValue(gp, 6)),
     right |-> TrackTrigger(triggerTracking.right, ButtonValue(gp, 7))]

----------------------------------------------------------------------------
(* updateOscilloscope (lines 541-564) and clearOscilloscope (661-668).     *)

\* const axisOffset = selected === 'left' ? 0 : 2
AxisOffset(stick) == IF stick = "left" THEN 0 ELSE 2

\* An oscilloscope that forgets data.y.shift().
ScopePushShiftX(data, xValue, yValue) ==
    LET x1 == Append(data.x, xValue)
        y1 == Append(data.y, yValue)
    IN  IF Len(x1) > ScopeMaxPoints
        THEN [x |-> Tail(x1), y |-> y1]
        ELSE [x |-> x1, y |-> y1]

\* data.x.push(xValue); data.y.push(yValue);
\* if (data.x.length > maxPoints) { data.x.shift(); data.y.shift(); }
ScopePush(data, xValue, yValue) ==
    LET x1 == Append(data.x, xValue)
        y1 == Append(data.y, yValue)
    IN  IF Len(x1) > ScopeMaxPoints
        THEN [x |-> Tail(x1), y |-> Tail(y1)]
        ELSE [x |-> x1, y |-> y1]

\* An oscilloscope that records the positions the stick display shows.
UpdateOscilloscopeShown(gp) ==
    LET axisOffset == AxisOffset(selectedScope)
    IN  [oscilloscopeData EXCEPT ![selectedScope] =
            ScopePush(@, ApplyDeadzone(AxisAt(gp, axisOffset)),
                         ApplyDeadzone(AxisAt(gp, axisOffset + 1)))]

\* An oscilloscope that records both sticks on every tick.
UpdateBothScopes(gp) ==
    [left  |-> ScopePush(oscilloscopeData.left, AxisAt(gp, 0), AxisAt(gp, 1)),
     right |-> ScopePush(oscilloscopeData.right, AxisAt(gp, 2), AxisAt(gp, 3))]

UpdateOscilloscope(gp) ==
    LET axisOffset == AxisOffset(selectedScope)
    IN  [oscilloscopeData EXCEPT ![selectedScope] =
            ScopePush(@, AxisAt(gp, axisOffset), AxisAt(gp, axisOffset + 1))]

EmptyScope == [left |-> [x |-> <<>>, y |-> <<>>], right |-> [x |-> <<>>, y |-> <<>>]]

----------------------------------------------------------------------------
(* updateCircularity (674-696), drawCircularityTest (739-779),             *)
(* clearCircularity (781-790).                                             *)

\* A noise filter that lets the threshold itself through: >= in place of >.
SignificantOrEqual(xValue, yValue) ==
    \/ (xValue # Undefined /\ Abs(xValue) >= NoiseThreshold)
    \/ (yValue # Undefined /\ Abs(yValue) >= NoiseThreshold)

\* if (Math.abs(xValue) > 0.1 || Math.abs(yValue) > 0.1)
Significant(xValue, yValue) ==
    AbsExceeds(xValue, NoiseThreshold) \/ AbsExceeds(yValue, NoiseThreshold)

CirclePush(data, xValue, yValue) ==
    IF Significant(xValue, yValue)
    THEN PushShift(data, <<xValue, yValue>>, CircleMaxPoints)
    ELSE data

UpdateCircularity(gp) ==
    LET axisOffset == AxisOffset(selectedCircle)
    IN  [circularityData EXCEPT ![selectedCircle] =
            CirclePush(@, AxisAt(gp, axisOffset), AxisAt(gp, axisOffset + 1))]

\* Math.sqrt(x * x + y * y) in thousandths, rounded down; the samples the
\* model feeds have a distance that is a whole number of thousandths.
Distance(point) ==
    LET a == Abs(point[1])
        b == Abs(point[2])
        s == a * a + b * b
    IN  CHOOSE r \in (IF a > b THEN a ELSE b) .. (a + b) :
            r * r <= s /\ (r + 1) * (r + 1) > s

\* The contribution of one point to totalError; a point with an undefined
\* coordinate has distance NaN, and NaN > 0.5 is false.
PointError(point) ==
    IF point[1] = Undefined \/ point[2] = Undefined THEN 0
    ELSE LET distance == Distance(point)
         IN  IF distance > EdgeThreshold THEN Abs(distance - 1000) ELSE 0

\* data.forEach(point => ... totalError += error ...)
RECURSIVE TotalError(_)
TotalError(data) ==
    IF data = <<>> THEN 0 ELSE PointError(Head(data)) + TotalError(Tail(data))

\* ((totalError / data.length) * 100).toFixed(2), in hundredths of a percent
AvgErrorToFixed2(totalError, length) == MathRound(<<totalError * 10, length>>)

\* The number of points of data farther than 0.5 from the centre.
RECURSIVE EdgeCount(_)
EdgeCount(data) ==
    IF data = <<>> THEN 0
    ELSE (IF /\ Head(data)[1] # Undefined
             /\ Head(data)[2] # Undefined
             /\ Distance(Head(data)) > EdgeThreshold
          THEN 1 ELSE 0) + EdgeCount(Tail(data))

\* An error averaged over the points that passed the 0.5 filter only.
DrawOverEdgePoints(data, text) ==
    IF Len(data) = 0 THEN text
    ELSE IF Len(data) > ErrorMinSamples
         THEN IF EdgeCount(data) = 0 THEN <<0, 1>>
              ELSE AvgErrorToFixed2(TotalError(data), EdgeCount(data))
         ELSE text

\* An error computed for every non-empty buffer.
DrawWithoutMinimum(data, text) ==
    IF Len(data) = 0 THEN text
    ELSE AvgErrorToFixed2(TotalError(data), Len(data))

\* The text of #circularity-error after drawCircularityTest has run on data.
DrawCircularityTest(data, text) ==
    IF Len(data) = 0 THEN text
    ELSE IF Len(data) > ErrorMinSamples
         THEN AvgErrorToFixed2(TotalError(data), Len(data))
         ELSE text

EmptyCircle == [left |-> <<>>, right |-> <<>>]

----------------------------------------------------------------------------
(* Connection handlers (lines 153-214) and controller tabs (241-280).      *)

\* Object.keys(GamepadTester.gamepads)[0]: integer keys come in ascending order.
\* The last key in place of the first.
LastKey(keys) == CHOOSE k \in keys : \A j \in keys : k >= j

FirstKey(keys) == CHOOSE k \in keys : \A j \in keys : k <= j

\* createControllerTabs: the tabs left visible for the stored controllers.
CreateControllerTabs(gps) ==
    IF Cardinality(DOMAIN gps) <= 1 THEN {} ELSE DOMAIN gps

\* GamepadTester.gamepads with gamepads[index] = snapshot
Store(gps, index, snapshot) ==
    [i \in DOMAIN gps \cup {index} |-> IF i = index THEN snapshot ELSE gps[i]]

\* delete GamepadTester.gamepads[index]
Delete(gps, index) == [i \in DOMAIN gps \ {index} |-> gps[i]]

\* A handler that makes every controller it is told about the active one.
HandleGamepadConnectedSteals(c, index, snapshot) ==
    LET gps == Store(c.gamepads, index, snapshot)
    IN  [gamepads |-> gps, active |-> index, tabs |-> CreateControllerTabs(gps)]

\* handleGamepadConnected on the connection state c = [gamepads, active, tabs]
HandleGamepadConnected(c, index, snapshot) ==
    LET gps == Store(c.gamepads, index, snapshot)
    IN  [gamepads |-> gps,
         active   |-> IF c.active = Null THEN index ELSE c.active,
         tabs     |-> CreateControllerTabs(gps)]

\* A handler that forgets the controller and keeps it as the active one.
HandleGamepadDisconnectedKeeps(c, index) ==
    LET gps == Delete(c.gamepads, index)
    IN  [gamepads |-> gps, active |-> c.active, tabs |-> CreateControllerTabs(gps)]

\* handleGamepadDisconnected on the connection state c
HandleGamepadDisconnected(c, index) ==
    LET gps == Delete(c.gamepads, index)
    IN  [gamepads |-> gps,
         active   |-> IF c.active = index
                      THEN IF DOMAIN gps # {} THEN FirstKey(DOMAIN gps) ELSE Null
                      ELSE c.active,
         tabs     |-> CreateControllerTabs(gps)]

\* checkExistingGamepads: handleGamepadConnected for every reported
\* controller, in ascending index order.
RECURSIVE CheckExistingGamepads(_, _, _)
CheckExistingGamepads(c, present, fresh) ==
    IF present = {} THEN c
    ELSE LET i == FirstKey(present)
         IN  CheckExistingGamepads(HandleGamepadConnected(c, i, fresh[i]),
                                   present \ {i}, fresh)

ConnState == [gamepads |-> gamepads, active |-> activeGamepadIndex, tabs |-> tabs]

SetConn(c) ==
    /\ gamepads' = c.gamepads
    /\ activeGamepadIndex' = c.active
    /\ tabs' = c.tabs
    /\ lastActive' = IF c.active # Null THEN c.active ELSE lastActive

----------------------------------------------------------------------------
(* The host: controllers are attached and detached, which changes what     *)
(* navigator.getGamepads() reports at once and queues the notification.    *)

Attach(Pads) ==
    \E i \in Pads \ hw :
        /\ Len(pending) < MaxPending
        /\ hw' = hw \cup {i}
        /\ pending' = Append(pending, <<"connected", i>>)
        /\ ev' = "attach"
        /\ calls' = <<>>
        /\ UNCHANGED <<stickTransform, stopSignalled>>
        /\ UNCHANGED <<gamepads, activeGamepadIndex, tabs, lastActive, loopVars,
                       perfVars, triggerTracking, oscilloscopeData, circularityData,
                       selectedScope, selectedCircle, circularityErrorText>>

Detach ==
    \E i \in hw :
        /\ Len(pending) < MaxPending
        /\ hw' = hw \ {i}
        /\ pending' = Append(pending, <<"disconnected", i>>)
        /\ ev' = "detach"
        /\ calls' = <<>>
        /\ UNCHANGED <<stickTransform, stopSignalled>>
        /\ UNCHANGED <<gamepads, activeGamepadIndex, tabs, lastActive, loopVars,
                       perfVars, triggerTracking, oscilloscopeData, circularityData,
                       selectedScope, selectedCircle, circularityErrorText>>

----------------------------------------------------------------------------
(* initializeApp (lines 95-115).                                           *)

\* A start-up that takes the Gamepad API for granted.
AssumeGamepadApi == TRUE

\* navigator.getGamepads is there (line 97)
HasGamepadApi == supported

InitializeApp(Snaps) ==
    /\ started = "boot"
    /\ IF ~HasGamepadApi
       THEN /\ started' = "unsupported"
            /\ ev' = "unsupported"
            /\ UNCHANGED <<supported, animationFrameId, scheduled, clock, ticks,
                           connVars>>
       ELSE \E fresh \in [hw -> Snaps] :
            /\ started' = "running"
            /\ scheduled' = TRUE
            /\ animationFrameId' = 1
            /\ SetConn(CheckExistingGamepads(ConnState, hw, fresh))
            /\ ev' = "initializeApp"
            /\ UNCHANGED <<supported, clock, ticks, hw, pending>>
    /\ calls' = <<>>
    /\ UNCHANGED <<perfVars, triggerTracking, oscilloscopeData, circularityData,
                   selectedScope, selectedCircle, circularityErrorText,
                   stickTransform, stopSignalled>>

\* The host delivers the oldest queued notification.  Before the listeners
\* are registered (line 123) nothing handles it.
Dispatch(Snaps) ==
    /\ pending # <<>>
    /\ pending' = Tail(pending)
    /\ LET kind == Head(pending)[1]
           index == Head(pending)[2]
       IN  IF started # "running"
           THEN /\ ev' = "unhandled"
                /\ UNCHANGED <<gamepads, activeGamepadIndex, tabs, lastActive>>
           ELSE IF kind = "connected"
           THEN \E snapshot \in Snaps :
                /\ SetConn(HandleGamepadConnected(ConnState, index, snapshot))
                /\ ev' = (IF index \in DOMAIN gamepads THEN "reconnected"
                          ELSE "connected")
           ELSE /\ SetConn(HandleGamepadDisconnected(ConnState, index))
                /\ ev' = (IF index = activeGamepadIndex THEN "disconnected-active"
                          ELSE "disconnected")
    /\ calls' = <<>>
    /\ UNCHANGED <<hw, loopVars, perfVars, triggerTracking, oscilloscopeData,
                   circularityData, selectedScope, selectedCircle,
                   circularityErrorText, stickTransform, stopSignalled>>

----------------------------------------------------------------------------
(* The user's controls (lines 126-143, 269-276).                           *)

\* click on the tab of controller index
SelectTab ==
    \E index \in tabs :
        /\ activeGamepadIndex' = index
        /\ lastActive' = index
        /\ tabs' = CreateControllerTabs(gamepads)
        /\ triggerTracking' = [left |-> {}, right |-> {}]
        /\ ev' = (IF index = activeGamepadIndex THEN "tab-same" ELSE "tab-switch")
        /\ calls' = <<>>
        /\ UNCHANGED <<stickTransform, stopSignalled>>
        /\ UNCHANGED <<hw, pending, gamepads, loopVars, perfVars,
                       oscilloscopeData, circularityData, selectedScope,
                       selectedCircle, circularityErrorText>>

\* change of input[name="scope-axis"]
SelectScope ==
    /\ started = "running"
    /\ \E value \in Sticks : selectedScope' = value
    /\ ev' = "scope-axis"
    /\ calls' = <<>>
    /\ UNCHANGED <<stickTransform, stopSignalled>>
    /\ UNCHANGED <<connVars, loopVars, perfVars, triggerTracking,
                   oscilloscopeData, circularityData, selectedCircle,
                   circularityErrorText>>

\* A clear that empties the buffer of the selected stick only.
ClearSelectedScope ==
    /\ started = "running"
    /\ oscilloscopeData' =
           [oscilloscopeData EXCEPT ![selectedScope] = [x |-> <<>>, y |-> <<>>]]
    /\ ev' = "clear-scope"
    /\ calls' = <<>>
    /\ UNCHANGED <<stickTransform, stopSignalled>>
    /\ UNCHANGED <<connVars, loopVars, perfVars, triggerTracking,
                   circularityData, selectedScope, selectedCircle,
                   circularityErrorText>>

\* clearOscilloscope
ClearOscilloscope ==
    /\ started = "running"
    /\ oscilloscopeData' = EmptyScope
    /\ ev' = "clear-scope"
    /\ calls' = <<>>
    /\ UNCHANGED <<stickTransform, stopSignalled>>
    /\ UNCHANGED <<connVars, loopVars, perfVars, triggerTracking,
                   circularityData, selectedScope, selectedCircle,
                   circularityErrorText>>

\* clearCircularity
ClearCircularity ==
    /\ started = "running"
    /\ circularityData' = EmptyCircle
    /\ circularityErrorText' = <<0, 1>>
    /\ ev' = "clear-circle"
    /\ calls' = <<>>
    /\ UNCHANGED <<stickTransform, stopSignalled>>
    /\ UNCHANGED <<connVars, loopVars, perfVars, triggerTracking,
                   oscilloscopeData, selectedScope, selectedCircle>>

\* change of input[name="circle-axis"]: the selection, then clearCircularity
SelectCircle ==
    /\ started = "running"
    /\ \E value \in Sticks : selectedCircle' = value
    /\ circularityData' = EmptyCircle
    /\ circularityErrorText' = <<0, 1>>
    /\ ev' = "circle-axis"
    /\ calls' = <<>>
    /\ UNCHANGED <<stickTransform, stopSignalled>>
    /\ UNCHANGED <<connVars, loopVars, perfVars, triggerTracking,
                   oscilloscopeData, selectedScope>>

----------------------------------------------------------------------------
(* pollGamepads (lines 287-330): one tick of the loop.                     *)

\* lines 294-298: every reported controller is stored afresh; an entry the
\* host no longer reports keeps the snapshot stored before.
Refresh(gps, present, fresh) ==
    [i \in DOMAIN gps \cup present |-> IF i \in present THEN fresh[i] ELSE gps[i]]

\* lines 301-302
HasActive(gps) == activeGamepadIndex # Null /\ activeGamepadIndex \in DOMAIN gps

\* The calls of a loop that updates the displays after the analytics.
DisplayLast ==
    <<"updatePerformanceMetrics", "updateTriggerPressure", "updateOscilloscope",
      "updateCircularity", "updateVisualController", "updateRawDataTable",
      "updateControllerInfo">>

\* lines 305-323: the calls made for the active controller, in order.
PollGamepadsCalls ==
    <<"updatePerformanceMetrics", "updateVisualController", "updateRawDataTable",
      "updateControllerInfo", "updateTriggerPressure", "updateOscilloscope",
      "updateCircularity">>

\* A loop that stamps the host time on the ticks it does not process too.
SkipButStamp ==
    /\ ev' = "idle"
    /\ calls' = <<>>
    /\ lastTimestamp' = clock'
    /\ UNCHANGED <<frameDeltas, pollingRates, avgPollingRate, pollingRateText,
                   frameDeltaText, reached, fed, triggerTracking,
                   oscilloscopeData, circularityData, circularityErrorText,
                   stickTransform>>

\* lines 301-326 when the condition of line 301 is false: nothing is called.
SkipActiveGamepad ==
    /\ ev' = "idle"
    /\ calls' = <<>>
    /\ UNCHANGED <<perfVars, triggerTracking, oscilloscopeData,
                   circularityData, circularityErrorText, stickTransform>>

\* A loop whose request for the next frame sits inside the if of line 301.
ContinueIfProcessed(processed) == processed

\* line 329 is reached whether or not a controller was processed: the next
\* callback is requested.
ContinueLoop(processed) == TRUE

Tick(Snaps, Deltas, MaxTicks) ==
    /\ scheduled
    /\ ticks < MaxTicks
    /\ \E delta \in Deltas, fresh \in [hw -> Snaps] :
        LET timestamp == clock + delta
            gps == Refresh(gamepads, hw, fresh)
        IN  /\ gamepads' = gps
            /\ clock' = timestamp
            /\ IF HasActive(gps)
               THEN LET gamepad == gps[activeGamepadIndex]
                        perf == UpdatePerformanceMetrics(timestamp)
                        circle == UpdateCircularity(gamepad)
                    IN  /\ lastTimestamp' = perf.lastTimestamp
                        /\ frameDeltas' = perf.frameDeltas
                        /\ pollingRates' = perf.pollingRates
                        /\ avgPollingRate' = perf.avgPollingRate
                        /\ pollingRateText' = perf.pollingRateText
                        /\ frameDeltaText' = perf.frameDeltaText
                        /\ fed' = perf.fed
                        /\ reached' = TRUE
                        /\ triggerTracking' = UpdateTriggerPressure(gamepad)
                        /\ oscilloscopeData' = UpdateOscilloscope(gamepad)
                        /\ circularityData' = circle
                        /\ circularityErrorText' =
                               DrawCircularityTest(circle[selectedCircle],
                                                   circularityErrorText)
                        /\ stickTransform' = UpdateVisualController(gamepad)
                        /\ calls' = PollGamepadsCalls
                        /\ ev' = "tick"
               ELSE SkipActiveGamepad
            /\ scheduled' = ContinueLoop(HasActive(gps))
            /\ animationFrameId' =
                   IF ContinueLoop(HasActive(gps)) THEN animationFrameId + 1
                   ELSE animationFrameId
    /\ ticks' = ticks + 1
    /\ UNCHANGED <<supported, started, hw, pending, activeGamepadIndex, tabs,
                   lastActive, selectedScope, selectedCircle, stopSignalled>>

----------------------------------------------------------------------------
(* A request to stop the loop.  The script keeps the handle of the pending *)
(* callback in animationFrameId (lines 329, 333) but has no operation that *)
(* reads it; the request changes nothing in the program.                   *)

StopSignal ==
    /\ started = "running"
    /\ ~stopSignalled
    /\ stopSignalled' = TRUE
    /\ ev' = "stop"
    /\ calls' = <<>>
    /\ UNCHANGED <<connVars, loopVars, perfVars, triggerTracking,
                   oscilloscopeData, circularityData, selectedScope,
                   selectedCircle, circularityErrorText, stickTransform>>

----------------------------------------------------------------------------
(* The state after the script has loaded (lines 10-52), with any set of    *)
(* controllers already attached.                                           *)

InitWith(Pads) ==
    /\ supported \in BOOLEAN
    /\ started = "boot"
    /\ animationFrameId = Null
    /\ scheduled = FALSE
    /\ hw \in SUBSET Pads
    /\ pending = <<>>
    /\ gamepads = <<>>
    /\ activeGamepadIndex = Null
    /\ tabs = {}
    /\ lastActive = Null
    /\ clock = 0
    /\ ticks = 0
    /\ lastTimestamp = 0
    /\ frameDeltas = <<>>
    /\ pollingRates = <<>>
    /\ avgPollingRate = Blank
    /\ pollingRateText = Blank
    /\ frameDeltaText = Blank
    /\ triggerTracking = [left |-> {}, right |-> {}]
    /\ oscilloscopeData = EmptyScope
    /\ circularityData = EmptyCircle
    /\ selectedScope = "left"
    /\ selectedCircle = "left"
    /\ circularityErrorText = Blank
    /\ ev = "load"
    /\ reached = FALSE
    /\ fed = 0
    /\ calls = <<>>
    /\ stickTransform = [left |-> <<0, 0>>, right |-> <<0, 0>>]
    /\ stopSignalled = FALSE

\* The program and its host, the user leaving the controls alone.
NextWith(Pads, Snaps, Deltas, MaxTicks) ==
    \/ InitializeApp(Snaps)
    \/ Attach(Pads)
    \/ Detach
    \/ Dispatch(Snaps)
    \/ Tick(Snaps, Deltas, MaxTicks)

\* The program with the controllers that were attached when the page loaded
\* left attached, the user leaving the controls alone.
NextAttached(Snaps, Deltas, MaxTicks) ==
    \/ InitializeApp(Snaps)
    \/ Tick(Snaps, Deltas, MaxTicks)

----------------------------------------------------------------------------
(* The rate estimator under varying frame times: one controller at rest.   *)

\* Ticks the loop is followed for.
RateTicks == 6

RestSnapshot == Snapshot(<<0, 0, 0, 0>>, 0, 0)

RatePads == {0}
RateSnaps == {RestSnapshot}
RateDeltas == {0, 1, 2}

InitRate == InitWith(RatePads)
NextRate == NextWith(RatePads, RateSnaps, RateDeltas, RateTicks)
SpecRate == InitRate /\ [][NextRate]_vars

\* The same with host timestamps that strictly increase from tick to tick.
FrameDeltas == {1, 2, 3}

InitFrames == InitWith(RatePads)
NextFrames == NextWith(RatePads, RateSnaps, FrameDeltas, RateTicks)
SpecFrames == InitFrames /\ [][NextFrames]_vars

----------------------------------------------------------------------------
(* Trigger tracking with two controllers and the controller tabs.          *)

\* Ticks the loop is followed for.
TrackTicks == 3

HalfPull == Snapshot(<<0, 0, 0, 0>>, 500, 0)
FullPull == Snapshot(<<0, 0, 0, 0>>, 1000, 500)

TrackPads == {0, 1}
TrackSnaps == {RestSnapshot, HalfPull, FullPull}
TrackDeltas == {1}

InitTrack == InitWith(TrackPads)
NextTrack ==
    \/ NextWith(TrackPads, TrackSnaps, TrackDeltas, TrackTicks)
    \/ SelectTab
SpecTrack == InitTrack /\ [][NextTrack]_vars

----------------------------------------------------------------------------
(* The connection handlers with three controllers at rest and the          *)
(* controller tabs.                                                        *)

\* Ticks the loop is followed for.
HandlerTicks == 2

HandlerPads == {0, 1, 2}
HandlerSnaps == {RestSnapshot}
HandlerDeltas == {1}

InitHandlers == InitWith(HandlerPads)
NextHandlers ==
    \/ NextWith(HandlerPads, HandlerSnaps, HandlerDeltas, HandlerTicks)
    \/ SelectTab
SpecHandlers == InitHandlers /\ [][NextHandlers]_vars

----------------------------------------------------------------------------
(* The oscilloscope with one controller, attached throughout, and the      *)
(* oscilloscope controls.                                                  *)

\* Ticks the loop is followed for.
ScopeTicks == 5

\* Both sticks off centre, the left one inside the display deadzone on x,
\* and the left trigger pulled a little, less than the deadzone is wide.
Tilted == Snapshot(<<40, -200, 300, -400>>, 40, 0)
\* A device that reports two axes only.
TwoAxes == Snapshot(<<700, 0>>, 0, 0)

ScopePads == {0}
ScopeSnaps == {Tilted, TwoAxes}
ScopeDeltas == {1}

InitScope == InitWith(ScopePads)
NextScope ==
    \/ NextAttached(ScopeSnaps, ScopeDeltas, ScopeTicks)
    \/ SelectScope
    \/ ClearOscilloscope
SpecScope == InitScope /\ [][NextScope]_vars

----------------------------------------------------------------------------
(* The circularity test with one controller, attached throughout, and the  *)
(* circularity controls.                                                   *)

\* Ticks the loop is followed for.
CircleTicks == 13

\* Left stick at distance 0.8; right stick exactly on the noise floor.
PushedRight == Snapshot(<<800, 0, 100, -100>>, 0, 0)
\* Left stick at distance 0.5; right stick at distance 1.0.
PushedUp == Snapshot(<<0, -500, 0, 1000>>, 0, 0)

CirclePads == {0}
CircleSnaps == {PushedRight, PushedUp}
CircleDeltas == {1}

InitCircle == InitWith(CirclePads)
NextCircle ==
    \/ NextAttached(CircleSnaps, CircleDeltas, CircleTicks)
    \/ SelectCircle
    \/ ClearCircularity
SpecCircle == InitCircle /\ [][NextCircle]_vars

----------------------------------------------------------------------------
(* The loop itself, under a fair frame scheduler: one controller that may  *)
(* report fewer axes and buttons than the standard mapping, frames that    *)
(* may share a host timestamp, and a request to stop.                      *)

\* Ticks the loop is followed for.
LoopTicks == 4

\* A device that reports two axes and seven buttons (no right trigger).
Sparse == [axes |-> <<700, 0>>, buttons |-> <<0, 0, 0, 0, 0, 0, 300>>]

LoopPads == {0}
LoopSnaps == {RestSnapshot, Sparse}
LoopDeltas == {0, 1}

InitLoop == InitWith(LoopPads)
NextLoop ==
    \/ NextWith(LoopPads, LoopSnaps, LoopDeltas, LoopTicks)
    \/ StopSignal
\* The host runs a callback handed to requestAnimationFrame: a pending
\* callback is a step of Tick, the only step that advances ticks.
FrameFires == scheduled /\ ticks < LoopTicks /\ ticks' = ticks + 1
\* requestAnimationFrame runs every callback it was handed.
SpecLoop == InitLoop /\ [][NextLoop]_vars /\ WF_ticks(FrameFires)

----------------------------------------------------------------------------
(* The stick display over the axis values up to 0.06 either side of the    *)
(* centre, which cover the deadzone threshold, and values out to the ends  *)
(* of the range.                                                           *)

\* Ticks the loop is followed for.
DeadzoneTicks == 1

DeadzoneValues == (-60 .. 60) \cup {-1000, -200, 200, 999}

\* Left stick at (v, -v), right stick at (v + 1, -(v + 1)).
DeadzoneSnapshot(v) == Snapshot(<<v, 0 - v, v + 1, 0 - (v + 1)>>, 0, 0)

DeadzonePads == {0}
DeadzoneSnaps == {DeadzoneSnapshot(v) : v \in DeadzoneValues}
DeadzoneDeltas == {1}

InitDeadzone == InitWith(DeadzonePads)
NextDeadzone == NextAttached(DeadzoneSnaps, DeadzoneDeltas, DeadzoneTicks)
SpecDeadzone == InitDeadzone /\ [][NextDeadzone]_vars

----------------------------------------------------------------------------
(* Vocabulary of the properties.                                           *)

\* This step is a tick that forwarded the active controller's snapshot.
ProcessedTick == ticks' = ticks + 1 /\ ev' = "tick"

\* new is old after one push at capacity cap: the pushed value is at the
\* end, and the entry dropped to make room, if any, is the oldest.
PushedInto(old, new, cap) ==
    /\ new # <<>>
    /\ new = (IF Len(old) < cap THEN old ELSE SubSeq(old, 2, Len(old)))
                 \o <<new[Len(new)]>>

\* The sum of the rates r[1] .. r[k] as an unreduced fraction.
RECURSIVE RateSumTo(_, _)
RateSumTo(r, k) ==
    IF k = 0 THEN <<0, 1>>
    ELSE LET rest == RateSumTo(r, k - 1)
         IN  <<rest[1] * r[k][2] + r[k][1] * rest[2], rest[2] * r[k][2]>>

\* The mean of a non-empty sequence of rates.
MeanRate(r) ==
    IF \E k \in 1..Len(r) : r[k] = Infinity THEN Infinity
    ELSE LET total == RateSumTo(r, Len(r)) IN Frac(total[1], total[2] * Len(r))

\* 1000 / mean(d) for a non-empty sequence of frame deltas.
RateOfDeltas(d) == Frac(1000 * Len(d), SumSeq(d))

----------------------------------------------------------------------------
(* C1.  The frame-delta window and the rate window each hold at most       *)
(* RateWindow entries (60 in the code) in every reachable state, and every *)
(* push leaves the window holding the previous entries, less the oldest    *)
(* one when the window was full, followed by the pushed value; no other    *)
(* step changes a window.                                                  *)
C1_WindowsSlide ==
    /\ [](Len(frameDeltas) <= RateWindow /\ Len(pollingRates) <= RateWindow)
    /\ [][ /\ fed' = fed + 1 =>
                /\ PushedInto(frameDeltas, frameDeltas', RateWindow)
                /\ PushedInto(pollingRates, pollingRates', RateWindow)
                /\ frameDeltas'[Len(frameDeltas')] = clock' - lastTimestamp
           /\ fed' = fed => UNCHANGED <<frameDeltas, pollingRates>> ]_vars

\* A push into full windows has just happened, and it evicted a value that
\* differs from the one pushed.
C1_Witness ==
    /\ ev = "tick"
    /\ fed > RateWindow
    /\ Len(frameDeltas) = RateWindow
    /\ Len(pollingRates) = RateWindow
    /\ frameDeltas[1] # frameDeltas[RateWindow]

C3_DeltaIsSincePreviousTick ==
    [][ ProcessedTick =>
            IF ~reached
            THEN fed' = fed /\ frameDeltas' = frameDeltas
            ELSE /\ fed' = fed + 1
                 /\ PushedInto(frameDeltas, frameDeltas', RateWindow)
                 /\ frameDeltas'[Len(frameDeltas')] = clock' - clock ]_vars

(* C4, as claimed.  No infinite value is ever in the rate window or in the *)
(* displayed polling rate.                                                 *)
C4_RateIsFinite ==
    /\ \A k \in 1..Len(pollingRates) : pollingRates[k] # Infinity
    /\ avgPollingRate # Infinity
    /\ pollingRateText # Infinity

(* C5, as claimed.  Whenever a controller becomes active that is not the   *)
(* controller that was active last, both trigger sets are empty            *)
(* immediately afterwards.                                                 *)
C5_SwitchEmptiesTriggerSets ==
    [][ (/\ activeGamepadIndex' # Null
         /\ lastActive # Null
         /\ activeGamepadIndex' # lastActive)
            => triggerTracking' = [left |-> {}, right |-> {}] ]_vars

(* C6, as claimed.  While the active controller index stays the same, the  *)
(* cardinality of each trigger set never decreases from one step to the    *)
(* next.                                                                   *)
C6_ResolutionNeverDecreases ==
    [][ (activeGamepadIndex # Null /\ activeGamepadIndex' = activeGamepadIndex)
            => /\ Cardinality(triggerTracking'.left)
                      >= Cardinality(triggerTracking.left)
               /\ Cardinality(triggerTracking'.right)
                      >= Cardinality(triggerTracking.right) ]_vars

(* C7.  In every reachable state the X and the Y sequence of each stick's   *)
(* oscilloscope buffer have the same length, at most ScopeMaxPoints (200   *)
(* in the code); and a tick that finds the selected stick's buffer full    *)
(* drops the oldest X and the oldest Y together and appends the new pair.  *)
C7_ScopeInLockstep ==
    /\ [](\A stick \in Sticks :
            /\ Len(oscilloscopeData[stick].x) = Len(oscilloscopeData[stick].y)
            /\ Len(oscilloscopeData[stick].x) <= ScopeMaxPoints)
    /\ [][ (ProcessedTick /\ Len(oscilloscopeData[selectedScope].x) = ScopeMaxPoints)
              => /\ PushedInto(oscilloscopeData[selectedScope].x,
                               oscilloscopeData'[selectedScope].x, ScopeMaxPoints)
                 /\ PushedInto(oscilloscopeData[selectedScope].y,
                               oscilloscopeData'[selectedScope].y, ScopeMaxPoints) ]_vars

\* A tick has just pushed into a full buffer whose oldest X differed from
\* the one after it, the other stick holding a shorter history.
C7_Witness ==
    /\ ev = "tick"
    /\ ticks > ScopeMaxPoints + 1
    /\ Len(oscilloscopeData[selectedScope].x) = ScopeMaxPoints
    /\ oscilloscopeData[selectedScope].x[1] # oscilloscopeData[selectedScope].x[2]
    /\ \E stick \in Sticks :
           Len(oscilloscopeData[stick].x) \in 1..(ScopeMaxPoints - 1)

\* The (x, y) the tick that has just run read for a stick.
SampleOf(stick) ==
    LET axes == gamepads'[activeGamepadIndex].axes
    IN  IF stick = "left" THEN <<axes[1], axes[2]>> ELSE <<axes[3], axes[4]>>

(* C8.  A tick with an active controller appends the selected stick's      *)
(* sample (x, y) to that stick's scatter buffer if |x| > 0.1 or |y| > 0.1, *)
(* dropping the oldest sample when the buffer was full, and leaves the     *)
(* buffer as it was otherwise; no buffer ever holds more than              *)
(* CircleMaxPoints samples (1000 in the code).                             *)
C8_CircleAcceptsIffSignificant ==
    /\ [](\A stick \in Sticks : Len(circularityData[stick]) <= CircleMaxPoints)
    /\ [][ ProcessedTick =>
             LET sample == SampleOf(selectedCircle)
                 old == circularityData[selectedCircle]
                 new == circularityData'[selectedCircle]
             IN  IF \/ sample[1] > 100 \/ sample[1] < -100
                    \/ sample[2] > 100 \/ sample[2] < -100
                 THEN /\ PushedInto(old, new, CircleMaxPoints)
                      /\ new[Len(new)] = sample
                 ELSE new = old ]_vars

\* A tick has just rejected a sample lying on the threshold while the
\* buffer of the selected stick is full of accepted ones.
C8_Witness ==
    /\ ev = "tick"
    /\ selectedCircle = "right"
    /\ Len(circularityData.right) = CircleMaxPoints
    /\ gamepads[activeGamepadIndex].axes[3] = 100
    /\ gamepads[activeGamepadIndex].axes[4] = -100

\* The sum of |d - 1| over the points data[1] .. data[k] with d > 0.5.
RECURSIVE EdgeErrorTo(_, _)
EdgeErrorTo(data, k) ==
    IF k = 0 THEN 0
    ELSE LET d == Distance(data[k])
         IN  (IF d > 500 THEN Abs(d - 1000) ELSE 0) + EdgeErrorTo(data, k - 1)

\* text shows, to two decimals, 100 * total / (1000 * count) percent.
ShowsPercent(text, total, count) ==
    /\ text[2] = 1
    /\ 2 * Abs(text[1] * count - 10 * total) <= count

(* C9.  After a tick that leaves more than 10 samples in the selected      *)
(* stick's scatter buffer, the displayed error is 100 * (the sum of        *)
(* |d - 1| over the retained samples with d > 0.5) / (the number of all    *)
(* retained samples), to two decimals: 0.00% when every retained sample    *)
(* is at distance 1.0, and 0.00% when every one is at distance 0.5.  A     *)
(* tick that leaves 10 samples or fewer leaves the displayed error alone.  *)
C9_ErrorOverAllSamples ==
    [][ ProcessedTick =>
          LET data == circularityData'[selectedCircle]
              n == Len(data)
          IN  IF n > 10
              THEN /\ ShowsPercent(circularityErrorText', EdgeErrorTo(data, n), n)
                   /\ (\A k \in 1..n : Distance(data[k]) = 1000)
                          => circularityErrorText' = <<0, 1>>
                   /\ (\A k \in 1..n : Distance(data[k]) = 500)
                          => circularityErrorText' = <<0, 1>>
              ELSE circularityErrorText' = circularityErrorText ]_vars

\* A tick has just computed a non-zero error over a buffer that mixes
\* samples beyond 0.5 with samples at 0.5.
C9_Witness ==
    /\ ev = "tick"
    /\ Len(circularityData[selectedCircle]) > 10
    /\ \E k \in 1..Len(circularityData[selectedCircle]) :
           Distance(circularityData[selectedCircle][k]) = 500
    /\ \E k \in 1..Len(circularityData[selectedCircle]) :
           Distance(circularityData[selectedCircle][k]) = 800
    /\ circularityErrorText[1] > 0

(* C10.  A change of the circularity stick selection and a circularity     *)
(* clear each leave the selected stick's scatter buffer empty and the      *)
(* displayed error at "0.00%"; and a displayed "0.00%" stays for as long   *)
(* as that buffer holds 10 samples or fewer.                               *)
C10_ClearResetsError ==
    [][ /\ ev' \in {"circle-axis", "clear-circle"} =>
              /\ circularityData'[selectedCircle'] = <<>>
              /\ circularityErrorText' = <<0, 1>>
        /\ (/\ circularityErrorText = <<0, 1>>
            /\ Len(circularityData'[selectedCircle']) <= 10)
               => circularityErrorText' = <<0, 1>> ]_vars

\* After a clear, ten samples with a non-zero error have been collected
\* and the display still reads "0.00%".
C10_Witness ==
    /\ ev = "tick"
    /\ circularityErrorText = <<0, 1>>
    /\ Len(circularityData[selectedCircle]) = 10
    /\ TotalError(circularityData[selectedCircle]) > 0

\* The place of a function among the calls of the last step (0: not called).
CallIndex(name) ==
    IF \E k \in 1..Len(calls) : calls[k] = name
    THEN CHOOSE k \in 1..Len(calls) : calls[k] = name
    ELSE 0

(* C11, as claimed.  A tick that processes the active controller runs the  *)
(* rate estimator, then the trigger tracker, then the oscilloscope, then   *)
(* the circularity buffer, and only then the raw-data and info displays.   *)
C11_DisplaysRunLast ==
    ev = "tick" =>
        /\ CallIndex("updatePerformanceMetrics") < CallIndex("updateTriggerPressure")
        /\ CallIndex("updateTriggerPressure") < CallIndex("updateOscilloscope")
        /\ CallIndex("updateOscilloscope") < CallIndex("updateCircularity")
        /\ CallIndex("updateCircularity") < CallIndex("updateRawDataTable")
        /\ CallIndex("updateCircularity") < CallIndex("updateControllerInfo")

(* C11, amended.  A tick that processes the active controller runs the     *)
(* rate estimator first, then the controller display, the raw-data        *)
(* display and the info display, then the trigger tracker, then the        *)
(* oscilloscope, and the circularity buffer last; each runs exactly once.  *)
C11_DisplaysRunSecond ==
    ev = "tick" =>
        /\ CallIndex("updatePerformanceMetrics") = 1
        /\ CallIndex("updatePerformanceMetrics") < CallIndex("updateVisualController")
        /\ CallIndex("updateVisualController") < CallIndex("updateRawDataTable")
        /\ CallIndex("updateRawDataTable") < CallIndex("updateControllerInfo")
        /\ CallIndex("updateControllerInfo") < CallIndex("updateTriggerPressure")
        /\ CallIndex("updateTriggerPressure") < CallIndex("updateOscilloscope")
        /\ CallIndex("updateOscilloscope") < CallIndex("updateCircularity")
        /\ CallIndex("updateCircularity") = Len(calls)
        /\ \A j, k \in 1..Len(calls) : calls[j] = calls[k] => j = k

\* A tick has just processed a controller whose left trigger was pulled:
\* every component has run and the trigger tracker has inserted a value.
C11_Witness ==
    /\ ev = "tick"
    /\ Len(calls) = 7
    /\ triggerTracking.left # {}
    /\ oscilloscopeData[selectedScope].x # <<>>

(* C12.  A tick that finds no active controller (activeGamepadIndex is     *)
(* null, or has no entry among the stored controllers) leaves the two rate *)
(* windows, lastTimestamp, both trigger sets, both oscilloscope buffers,   *)
(* both scatter buffers and both selections as they were.                  *)
C12_IdleTickKeepsAnalytics ==
    [][ (/\ ticks' = ticks + 1
         /\ \/ activeGamepadIndex = Null
            \/ activeGamepadIndex \notin DOMAIN gamepads')
            => UNCHANGED <<frameDeltas, pollingRates, lastTimestamp,
                           triggerTracking, oscilloscopeData, circularityData,
                           selectedScope, selectedCircle>> ]_vars

\* A tick without an active controller has just stored a controller the
\* host reports, while the analytics hold what earlier ticks recorded.
C12_Witness ==
    /\ ev = "idle"
    /\ activeGamepadIndex = Null
    /\ DOMAIN gamepads # {}
    /\ triggerTracking.left # {}
    /\ frameDeltas # <<>>
    /\ lastTimestamp < clock

(* C13.  From the start of polling on a callback is always pending; every  *)
(* tick requests the next one, also a tick without an active controller, a *)
(* tick whose snapshot has fewer than 4 axes or fewer than 8 buttons and a *)
(* tick with a frame delta of zero; and under a fair frame scheduler the   *)
(* next tick eventually runs (for as long as the model follows the loop).  *)
C13_LoopKeepsRunning ==
    /\ [](started = "running" => scheduled)
    /\ [][ ticks' = ticks + 1
              => scheduled' /\ animationFrameId' = animationFrameId + 1 ]_vars
    /\ (started = "running") ~> (ticks = LoopTicks)

\* A tick has just processed a snapshot with two axes and seven buttons at
\* a frame delta of zero, after a tick that had no active controller, and
\* the next callback is pending.
C13_Witness ==
    /\ ev = "tick"
    /\ scheduled
    /\ Len(gamepads[activeGamepadIndex].axes) < 4
    /\ Len(gamepads[activeGamepadIndex].buttons) < 8
    /\ frameDeltas # <<>>
    /\ frameDeltas[Len(frameDeltas)] = 0
    /\ ticks > fed + 1

(* C14, as claimed.  Once the loop has been asked to stop, no further tick *)
(* runs and no further callback is requested.                              *)
C14_StopEndsLoop ==
    [][ stopSignalled => (ticks' = ticks /\ animationFrameId' = animationFrameId) ]_vars

\* The variables that make up the session: everything the handlers and the
\* loop write.
SessionState ==
    <<gamepads, activeGamepadIndex, tabs, lastTimestamp, frameDeltas,
      pollingRates, avgPollingRate, pollingRateText, frameDeltaText,
      triggerTracking, oscilloscopeData, circularityData, selectedScope,
      selectedCircle, circularityErrorText, stickTransform>>

(* C15.  On a host without navigator.getGamepads the loop is never         *)
(* started: no callback is ever requested, no tick runs, no connection     *)
(* notification is handled, and no step changes the session state.         *)
C15_UnsupportedNeverStarts ==
    /\ [](~supported => /\ started # "running"
                         /\ ~scheduled
                         /\ animationFrameId = Null
                         /\ ticks = 0)
    /\ [][ ~supported => UNCHANGED SessionState ]_vars

\* The compatibility notice has been shown, and a connection notification
\* of a controller the host reports has been delivered to no handler.
C15_Witness ==
    /\ ~supported
    /\ started = "unsupported"
    /\ ev = "unhandled"
    /\ hw # {}
    /\ gamepads = <<>>

\* axes[i] read as 0 when the snapshot has no axis i.
AxisOrZero(gp, i) == IF i < Len(gp.axes) THEN gp.axes[i + 1] ELSE 0

(* C16, as claimed.  A tick that processes a snapshot with fewer than 4    *)
(* axes or fewer than 8 buttons reads every missing entry as 0: the        *)
(* oscilloscope appends 0 for a missing axis of the selected stick, a      *)
(* missing trigger leaves its set as it was, and the next callback is      *)
(* requested.                                                              *)
C16_MissingEntriesReadAsZero ==
    [][ ProcessedTick =>
          LET gp == gamepads'[activeGamepadIndex]
              axisOffset == IF selectedScope = "left" THEN 0 ELSE 2
              data == oscilloscopeData'[selectedScope]
          IN  /\ data.x[Len(data.x)] = AxisOrZero(gp, axisOffset)
              /\ data.y[Len(data.y)] = AxisOrZero(gp, axisOffset + 1)
              /\ Len(gp.buttons) < 7 => triggerTracking'.left = triggerTracking.left
              /\ Len(gp.buttons) < 8 => triggerTracking'.right = triggerTracking.right
              /\ scheduled' ]_vars

(* C17, as claimed.  A click on the tab of a controller other than the     *)
(* active one empties both trigger sets and leaves the oscilloscope and    *)
(* the scatter buffers as they were, and a tick processed for the newly    *)
(* selected controller leaves the history recorded before the click as it  *)
(* was too.                                                                *)
C17_SwitchFreezesHistory ==
    [][ /\ ev' = "tab-switch" =>
              /\ triggerTracking' = [left |-> {}, right |-> {}]
              /\ UNCHANGED <<oscilloscopeData, circularityData>>
        /\ (/\ ev = "tab-switch"
            /\ oscilloscopeData[selectedScope].x # <<>>
            /\ ProcessedTick) =>
              UNCHANGED <<oscilloscopeData, circularityData>> ]_vars

(* C18.  A tick that processes the active controller appends to the        *)
(* oscilloscope buffer of the selected stick and leaves the buffer of the  *)
(* other stick as it was; a change of the oscilloscope stick selection     *)
(* leaves both buffers as they were; and a buffer loses its history to no  *)
(* step but an oscilloscope clear.                                         *)
C18_OnlySelectedScopeChanges ==
    [][ /\ ProcessedTick =>
              /\ \A stick \in Sticks \ {selectedScope} :
                     oscilloscopeData'[stick] = oscilloscopeData[stick]
              /\ PushedInto(oscilloscopeData[selectedScope].x,
                            oscilloscopeData'[selectedScope].x, ScopeMaxPoints)
        /\ ev' = "scope-axis" => oscilloscopeData' = oscilloscopeData
        /\ \A stick \in Sticks :
              Len(oscilloscopeData'[stick].x) < Len(oscilloscopeData[stick].x)
                  => ev' = "clear-scope" ]_vars

\* After two ticks on the left stick the selection was changed, and a
\* tick has just recorded its first sample of the right stick.
C18_Witness ==
    /\ ev = "tick"
    /\ selectedScope = "right"
    /\ Len(oscilloscopeData.right.x) = 1
    /\ Len(oscilloscopeData.left.x) = 2

(* C19.  An oscilloscope clear leaves the X and the Y sequence of both     *)
(* sticks empty, and leaves the scatter buffers, the rate windows, the     *)
(* trigger sets, both selections and the active controller as they were.   *)
C19_ClearScopeEmptiesBoth ==
    [][ ev' = "clear-scope" =>
          /\ \A stick \in Sticks : /\ Len(oscilloscopeData'[stick].x) = 0
                                   /\ Len(oscilloscopeData'[stick].y) = 0
          /\ UNCHANGED <<circularityData, frameDeltas, pollingRates,
                         triggerTracking, selectedScope, selectedCircle,
                         activeGamepadIndex>> ]_vars

\* A clear has just run with the right stick selected, after ticks that
\* filled the scatter buffer, the rate windows and a trigger set.
C19_Witness ==
    /\ ev = "clear-scope"
    /\ selectedScope = "right"
    /\ oscilloscopeData.left.x = <<>>
    /\ oscilloscopeData.right.x = <<>>
    /\ Len(circularityData.left) > 1
    /\ Len(pollingRates) > 1
    /\ triggerTracking.left # {}

\* The value shown for an axis value v: 0 inside [-0.05, 0.05], v outside.
Shown(v) == IF v >= -50 /\ v <= 50 THEN 0 ELSE v

(* C20.  The position a tick gives an on-screen stick is 15 pixels times   *)
(* the deadzone-normalised axis values, where a value v with |v| <= 0.05   *)
(* is normalised to 0 and any other value to itself (0.04 and 0.05 to 0,   *)
(* 0.051 to 0.051, -0.2 to -0.2).                                          *)
C20_DeadzoneZeroesSmallValues ==
    [][ ProcessedTick =>
          LET axes == gamepads'[activeGamepadIndex].axes
          IN  stickTransform' =
                  [left  |-> <<15 * Shown(axes[1]), 15 * Shown(axes[2])>>,
                   right |-> <<15 * Shown(axes[3]), 15 * Shown(axes[4])>>] ]_vars

\* A tick has just shown a left stick at (0.05, -0.05) in the centre and a
\* right stick at (0.051, -0.051) off centre.
C20_Witness ==
    /\ ev = "tick"
    /\ gamepads[activeGamepadIndex].axes = <<50, -50, 51, -51>>
    /\ stickTransform = [left |-> <<0, 0>>, right |-> <<765, -765>>]

\* axes[i] of a snapshot as the host reports it (Undefined: no such axis).
RawAxis(gp, i) == IF i < Len(gp.axes) THEN gp.axes[i + 1] ELSE Undefined

(* C21.  What a tick records is the raw snapshot: the pair appended to the *)
(* selected stick's oscilloscope buffer is the pair of raw axis values,    *)
(* also when a value lies within the deadzone (0 < |v| <= 0.05); a sample  *)
(* the circularity filter accepts is stored with its raw coordinates; and  *)
(* a trigger value above 0 is inserted as it is, however small.            *)
C21_AnalyticsSeeRawValues ==
    [][ ProcessedTick =>
          LET gp == gamepads'[activeGamepadIndex]
              scopeOffset == IF selectedScope = "left" THEN 0 ELSE 2
              circleOffset == IF selectedCircle = "left" THEN 0 ELSE 2
              scope == oscilloscopeData'[selectedScope]
              circle == circularityData'[selectedCircle]
              x == RawAxis(gp, circleOffset)
              y == RawAxis(gp, circleOffset + 1)
          IN  /\ scope.x[Len(scope.x)] = RawAxis(gp, scopeOffset)
              /\ scope.y[Len(scope.y)] = RawAxis(gp, scopeOffset + 1)
              /\ circle # circularityData[selectedCircle]
                     => circle[Len(circle)] = <<x, y>>
              /\ \A k \in 1..Len(circle) :
                     \/ circle[k][1] > 100 \/ circle[k][1] < -100
                     \/ circle[k][2] > 100 \/ circle[k][2] < -100
              /\ gp.buttons[7] > 0 => gp.buttons[7] \in triggerTracking'.left ]_vars

\* A tick has just processed a snapshot whose left stick is at (0.04, -0.2)
\* and whose left trigger is at 0.04: the display shows x = 0, and the
\* oscilloscope, the scatter buffer and the trigger set hold 0.04.
C21_Witness ==
    /\ ev = "tick"
    /\ selectedScope = "left"
    /\ stickTransform.left = <<0, -3000>>
    /\ oscilloscopeData.left.x[Len(oscilloscopeData.left.x)] = 40
    /\ circularityData.left[Len(circularityData.left)] = <<40, -200>>
    /\ 40 \in triggerTracking.left

(* C22.  Neither trigger set ever contains 0, and a tick whose snapshot    *)
(* has the trigger at 0, or has no such button, leaves that trigger's set  *)
(* as it was.                                                              *)
C22_OnlyNonzeroTriggerValues ==
    /\ [](0 \notin triggerTracking.left /\ 0 \notin triggerTracking.right)
    /\ [][ ProcessedTick =>
              LET buttons == gamepads'[activeGamepadIndex].buttons
              IN  /\ (Len(buttons) < 7 \/ buttons[7] = 0)
                        => triggerTracking'.left = triggerTracking.left
                  /\ (Len(buttons) < 8 \/ buttons[8] = 0)
                        => triggerTracking'.right = triggerTracking.right ]_vars

\* A tick has just processed a snapshot with both triggers at 0, after a
\* tick whose snapshot had the left trigger at 0.3 and no right trigger.
C22_Witness ==
    /\ ev = "tick"
    /\ gamepads[activeGamepadIndex] = RestSnapshot
    /\ triggerTracking.left = {300}
    /\ triggerTracking.right = {}

\* The analytics and the selections: what a connection handler has no part in.
AnalyticsState ==
    <<lastTimestamp, frameDeltas, pollingRates, triggerTracking,
      oscilloscopeData, circularityData, selectedScope, selectedCircle>>

(* C23.  The handler of an attach notification stores the controller,     *)
(* makes it the active one if none is active and leaves the active one     *)
(* alone otherwise, and writes nothing else; the startup poll leaves the   *)
(* controllers the host reports stored and the lowest of them active; and  *)
(* a notification for a controller that is stored already, as one the      *)
(* startup poll has found is, leaves the set of stored controllers and an  *)
(* active controller as they were.                                         *)
C23_AttachKeepsActive ==
    [][ /\ ev' \in {"connected", "reconnected"} =>
              LET index == Head(pending)[2]
              IN  /\ DOMAIN gamepads' = DOMAIN gamepads \cup {index}
                  /\ activeGamepadIndex' =
                         (IF activeGamepadIndex = Null THEN index
                          ELSE activeGamepadIndex)
                  /\ UNCHANGED AnalyticsState
        /\ ev' = "reconnected" =>
              /\ DOMAIN gamepads' = DOMAIN gamepads
              /\ activeGamepadIndex # Null
                     => activeGamepadIndex' = activeGamepadIndex
        /\ ev' = "initializeApp" =>
              /\ DOMAIN gamepads' = hw
              /\ \/ hw = {} /\ activeGamepadIndex' = Null
                 \/ /\ activeGamepadIndex' \in hw
                    /\ \A j \in hw : activeGamepadIndex' <= j ]_vars

\* Before any tick, the notification for a controller the startup poll
\* had stored has just been handled, while another controller is active.
C23_Witness ==
    /\ ev = "reconnected"
    /\ ticks = 0
    /\ Cardinality(DOMAIN gamepads) >= 2
    /\ activeGamepadIndex = 0
    /\ pending = <<>>
    /\ hw = DOMAIN gamepads

(* C24.  In every reachable state activeGamepadIndex is null or the index  *)
(* of a stored controller.                                                 *)
C24_ActiveIsStored ==
    activeGamepadIndex = Null \/ activeGamepadIndex \in DOMAIN gamepads

\* After ticks, a click on its tab has just made controller 2 the active
\* one; controllers 1 and 2 are stored and no notification is pending.
C24_Witness ==
    /\ ev = "tab-switch"
    /\ ticks > 0
    /\ activeGamepadIndex = 2
    /\ DOMAIN gamepads = {1, 2}
    /\ hw = {1, 2}
    /\ pending = <<>>

(* C25, as claimed.  In every reachable state in which a controller is     *)
(* stored, some controller is active.                                      *)
C25_StoredImpliesActive ==
    DOMAIN gamepads # {} => activeGamepadIndex # Null

(* C26.  The handler of a detach notification forgets the controller; if   *)
(* it was the active one, the stored controller with the lowest index      *)
(* becomes active, or none if none is stored any more; if it was not, the  *)
(* active controller stays.                                                *)
C26_DetachPicksLowest ==
    [][ ev' \in {"disconnected", "disconnected-active"} =>
          LET index == Head(pending)[2]
          IN  /\ index \notin DOMAIN gamepads'
              /\ DOMAIN gamepads' = DOMAIN gamepads \ {index}
              /\ IF activeGamepadIndex = index
                 THEN IF DOMAIN gamepads' = {}
                      THEN activeGamepadIndex' = Null
                      ELSE /\ activeGamepadIndex' \in DOMAIN gamepads'
                           /\ \A j \in DOMAIN gamepads' : activeGamepadIndex' <= j
                 ELSE activeGamepadIndex' = activeGamepadIndex ]_vars

\* The controller with the highest index was active and has just been
\* forgotten: of the two that remain the lower one is active.
C26_Witness ==
    /\ ev = "disconnected-active"
    /\ lastActive = 0
    /\ activeGamepadIndex = 0
    /\ DOMAIN gamepads = {0, 1}
    /\ hw = {0, 1}
    /\ tabs = {0, 1}

====
